---- MODULE Spec2Model ----
(***************************************************************************)
(* Model of the extractor-hood firmware afzuigkap.ino: five multiplexed    *)
(* button/LED lines, a five-state fan with three relays, a light circuit   *)
(* and the two-wire link to the companion controller.                      *)
(*                                                                         *)
(* loop60() is modelled as a sequence of steps in program order: one step  *)
(* per channel (readButtonState(i) and, when the drop exceeds the          *)
(* threshold, buttonPressed(i)), then the companion step, then the blink   *)
(* step.  pc holds the position inside loop60(); pc = 0 is a tick boundary.*)
(* SpecPins takes readButtonState() apart into its pin operations, and     *)
(* SpecLoop adds loop(), which calls loop60() by the millisecond clock.    *)
(***************************************************************************)
EXTENDS Integers, FiniteSets

VARIABLES statusLedStates, bCurrVals, bPrevVals, lightState, fanState,
          espLightTogglePrev, espLightToggleCurr, counter,
          pinModes, pinLevels, written, pc,
          fanAtTick, lightAtTick, espSampled,
          phase, millis, millisPrev, inTick, polled, sinceTick

\* written is the set of pins the last step called digitalWrite() on.  phase
\* is the position inside readButtonState() where that function is taken
\* apart (0 outside it).  millis is the millisecond clock and millisPrev the
\* variable of that name, both as two 16-bit halves of an unsigned long;
\* inTick says that loop() is inside its call of loop60(), polled that loop()
\* ran since the clock last advanced, and sinceTick counts the milliseconds
\* since loop60() was last called, up to TickPeriod + 1.
loopVars == <<millis, millisPrev, inTick, polled, sinceTick>>

vars == <<statusLedStates, bCurrVals, bPrevVals, lightState, fanState,
          espLightTogglePrev, espLightToggleCurr, counter,
          pinModes, pinLevels, written, pc, fanAtTick, lightAtTick, espSampled,
          phase, loopVars>>

(* ------------------------------------------------------------ constants *)

LOW == 0
HIGH == 1

blCount == 5
Channels == 0 .. (blCount - 1)

buttonLedPins == [i \in Channels |->
                    CASE i = 0 -> "A4" [] i = 1 -> "A5" [] i = 2 -> "A1"
                      [] i = 3 -> "A2" [] i = 4 -> "A3"]
lightPin == "D3"
fanPin1 == "D5"
fanPin2 == "D4"
fanPin3 == "D2"
espLightStatePin == "D9"
espLightTogglePin == "A7"

Pins == {buttonLedPins[i] : i \in Channels}
          \cup {lightPin, fanPin1, fanPin2, fanPin3, espLightStatePin, espLightTogglePin}

\* unsigned long is 32 bits wide; it is held as two halves of 16 bits.
Limb == 65536
\* loop() runs loop60() when more than this many milliseconds have passed.
TickPeriod == 16
PressDrop == 300
PulseRise == 600
BlinkTicks == 30

\* Variant: state 4 drives the relays of state 3.
fanPinStates_SharedRelays ==
  [f \in 0 .. 4 |->
     CASE f = 0 -> [c \in 0 .. 6 |-> CASE c = 0 -> LOW  [] c = 1 -> LOW  [] c = 2 -> LOW
                                       [] c = 3 -> HIGH [] c = 4 -> HIGH [] c = 5 -> HIGH [] c = 6 -> HIGH]
       [] f = 1 -> [c \in 0 .. 6 |-> CASE c = 0 -> HIGH [] c = 1 -> LOW  [] c = 2 -> LOW
                                       [] c = 3 -> LOW  [] c = 4 -> LOW  [] c = 5 -> HIGH [] c = 6 -> HIGH]
       [] f = 2 -> [c \in 0 .. 6 |-> CASE c = 0 -> LOW  [] c = 1 -> HIGH [] c = 2 -> LOW
                                       [] c = 3 -> LOW  [] c = 4 -> HIGH [] c = 5 -> LOW  [] c = 6 -> HIGH]
       [] f = 3 -> [c \in 0 .. 6 |-> CASE c = 0 -> HIGH [] c = 1 -> HIGH [] c = 2 -> LOW
                                       [] c = 3 -> LOW  [] c = 4 -> HIGH [] c = 5 -> HIGH [] c = 6 -> LOW]
       [] f = 4 -> [c \in 0 .. 6 |-> CASE c = 0 -> HIGH [] c = 1 -> HIGH [] c = 2 -> LOW
                                       [] c = 3 -> LOW  [] c = 4 -> HIGH [] c = 5 -> HIGH [] c = 6 -> LOW]]

\* int fanPinStates[5][7]: three relay levels, then the levels of LEDs 0..3.
fanPinStates ==
  [f \in 0 .. 4 |->
     CASE f = 0 -> [c \in 0 .. 6 |-> CASE c = 0 -> LOW  [] c = 1 -> LOW  [] c = 2 -> LOW
                                       [] c = 3 -> HIGH [] c = 4 -> HIGH [] c = 5 -> HIGH [] c = 6 -> HIGH]
       [] f = 1 -> [c \in 0 .. 6 |-> CASE c = 0 -> HIGH [] c = 1 -> LOW  [] c = 2 -> LOW
                                       [] c = 3 -> LOW  [] c = 4 -> LOW  [] c = 5 -> HIGH [] c = 6 -> HIGH]
       [] f = 2 -> [c \in 0 .. 6 |-> CASE c = 0 -> LOW  [] c = 1 -> HIGH [] c = 2 -> LOW
                                       [] c = 3 -> LOW  [] c = 4 -> HIGH [] c = 5 -> LOW  [] c = 6 -> HIGH]
       [] f = 3 -> [c \in 0 .. 6 |-> CASE c = 0 -> HIGH [] c = 1 -> HIGH [] c = 2 -> LOW
                                       [] c = 3 -> LOW  [] c = 4 -> HIGH [] c = 5 -> HIGH [] c = 6 -> LOW]
       [] f = 4 -> [c \in 0 .. 6 |-> CASE c = 0 -> HIGH [] c = 1 -> LOW  [] c = 2 -> HIGH
                                       [] c = 3 -> LOW  [] c = 4 -> HIGH [] c = 5 -> HIGH [] c = 6 -> LOW]]

(* ------------------------------------------------------- the environment *)

\* Readings of a button line: near full scale when released, about 600 when
\* the button pulls the line down through the divider.
ButtonSamples == {1023, 600}
\* Readings of the companion request line while the companion holds it low.
EspIdleSamples == {0}
\* Readings of the request line when the companion pulses it: low, or the
\* level of a pulse.
EspSamples == {0, 660}
\* Readings of the request line when the companion operates it, on a scale
\* that holds rises of exactly 600 and of 601.
EspPulseSamples == {0, 600, 601, 1023}
\* Readings of a button line on a scale that holds drops of exactly 300
\* and of 301 from full scale.
ButtonEdgeSamples == {1023, 723, 722}
\* At most this many button lines read low in the same pass.
MaxHeld == 2

IsHeld(v) == v < 1023 - PressDrop
\* Readings of a button line with no button touched.
ButtonIdleSamples == {1023}
\* The clock is followed for this many milliseconds on either side of its
\* wrap from 2^32 - 1 to 0.
ClockWindow == 24
\* Milliseconds by which the clock advances between two runs of loop().
ClockSteps == {1, 2}

(* ------------------------------------------------- the program's state *)

St == [statusLedStates |-> statusLedStates, bCurrVals |-> bCurrVals,
       bPrevVals |-> bPrevVals, lightState |-> lightState, fanState |-> fanState,
       espLightTogglePrev |-> espLightTogglePrev,
       espLightToggleCurr |-> espLightToggleCurr, counter |-> counter,
       pinModes |-> pinModes, pinLevels |-> pinLevels, written |-> {}]

Commit(s) ==
  /\ statusLedStates' = s.statusLedStates
  /\ bCurrVals' = s.bCurrVals
  /\ bPrevVals' = s.bPrevVals
  /\ lightState' = s.lightState
  /\ fanState' = s.fanState
  /\ espLightTogglePrev' = s.espLightTogglePrev
  /\ espLightToggleCurr' = s.espLightToggleCurr
  /\ counter' = s.counter
  /\ pinModes' = s.pinModes
  /\ pinLevels' = s.pinLevels
  /\ written' = s.written

\* Globals as initialised at their declarations; every pin a plain input.
Boot == [statusLedStates |-> [i \in Channels |-> HIGH],
         bCurrVals |-> [i \in Channels |-> 0],
         bPrevVals |-> [i \in Channels |-> 0],
         lightState |-> FALSE,
         fanState |-> 0,
         espLightTogglePrev |-> 0,
         espLightToggleCurr |-> 0,
         counter |-> 0,
         pinModes |-> [p \in Pins |-> "INPUT"],
         pinLevels |-> [p \in Pins |-> LOW],
         written |-> {}]

(* ------------------------------------------------------ the operations *)

pinMode(s, pin, mode) == [s EXCEPT !.pinModes[pin] = mode]

digitalWrite(s, pin, val) ==
  [s EXCEPT !.pinLevels[pin] = val, !.written = s.written \cup {pin}]

BoolLevel(b) == IF b THEN HIGH ELSE LOW

\* statusLedStates[k] = !statusLedStates[k] on an int holding LOW or HIGH.
NotLevel(v) == IF v = 0 THEN 1 ELSE 0

RECURSIVE WriteLedsFrom(_, _)
WriteLedsFrom(s, i) ==
  IF i >= blCount THEN s
  ELSE WriteLedsFrom(digitalWrite(s, buttonLedPins[i], s.statusLedStates[i]), i + 1)

\* Variant: the write of LED 3 alternates its level, as a blinker built into
\* the write would.
updateLedsAt_Blinker(s, index) ==
  LET b == [s EXCEPT !.statusLedStates[3] = NotLevel(s.statusLedStates[3])]
  IN IF index = -1 THEN WriteLedsFrom(b, 0)
     ELSE IF index = 3 THEN digitalWrite(b, buttonLedPins[3], b.statusLedStates[3])
     ELSE digitalWrite(s, buttonLedPins[index], s.statusLedStates[index])

\* updateLeds(int index)
updateLedsAt(s, index) ==
  IF index = -1 THEN WriteLedsFrom(s, 0)
  ELSE digitalWrite(s, buttonLedPins[index], s.statusLedStates[index])

\* updateLeds()
updateLeds(s) == updateLedsAt(s, -1)

\* Variant: the levels of relays 2 and 3 are written to each other's pin.
updateFan_RelaysCrossed(s) ==
  LET row == fanPinStates[s.fanState]
      s1 == digitalWrite(s, fanPin1, row[0])
      s2 == digitalWrite(s1, fanPin3, row[1])
      s3 == digitalWrite(s2, fanPin2, row[2])
      s4 == [s3 EXCEPT !.statusLedStates[0] = row[3],
                       !.statusLedStates[1] = row[4],
                       !.statusLedStates[2] = row[5],
                       !.statusLedStates[3] = row[6]]
  IN updateLeds(s4)

\* Variant: the state of LED 3 is not taken from the table.
updateFan_Led3Stale(s) ==
  LET row == fanPinStates[s.fanState]
      s1 == digitalWrite(s, fanPin1, row[0])
      s2 == digitalWrite(s1, fanPin2, row[1])
      s3 == digitalWrite(s2, fanPin3, row[2])
      s4 == [s3 EXCEPT !.statusLedStates[0] = row[3],
                       !.statusLedStates[1] = row[4],
                       !.statusLedStates[2] = row[5]]
  IN updateLeds(s4)

\* Variant: the LED loop runs over all five LEDs, LED 4 getting the last
\* column of the row.
updateFan_FiveLeds(s) ==
  LET row == fanPinStates[s.fanState]
      s1 == digitalWrite(s, fanPin1, row[0])
      s2 == digitalWrite(s1, fanPin2, row[1])
      s3 == digitalWrite(s2, fanPin3, row[2])
      s4 == [s3 EXCEPT !.statusLedStates[0] = row[3],
                       !.statusLedStates[1] = row[4],
                       !.statusLedStates[2] = row[5],
                       !.statusLedStates[3] = row[6],
                       !.statusLedStates[4] = row[6]]
  IN updateLeds(s4)

\* Variant: LED 3 is switched off by every table row.
updateFan_Led3Off(s) ==
  LET row == fanPinStates[s.fanState]
      s1 == digitalWrite(s, fanPin1, row[0])
      s2 == digitalWrite(s1, fanPin2, row[1])
      s3 == digitalWrite(s2, fanPin3, row[2])
      s4 == [s3 EXCEPT !.statusLedStates[0] = row[3],
                       !.statusLedStates[1] = row[4],
                       !.statusLedStates[2] = row[5],
                       !.statusLedStates[3] = HIGH]
  IN updateLeds(s4)

updateFan(s) ==
  LET row == fanPinStates[s.fanState]
      s1 == digitalWrite(s, fanPin1, row[0])
      s2 == digitalWrite(s1, fanPin2, row[1])
      s3 == digitalWrite(s2, fanPin3, row[2])
      s4 == [s3 EXCEPT !.statusLedStates[0] = row[3],
                       !.statusLedStates[1] = row[4],
                       !.statusLedStates[2] = row[5],
                       !.statusLedStates[3] = row[6]]
  IN updateLeds(s4)

\* Variant: LED 4 is given the level of the light, without the negation.
updateLight_LedFollowsLight(s) ==
  LET s1 == digitalWrite(s, lightPin, BoolLevel(s.lightState))
      s2 == IF s1.lightState
              THEN pinMode(s1, espLightStatePin, "INPUT")
              ELSE digitalWrite(pinMode(s1, espLightStatePin, "OUTPUT"),
                                espLightStatePin, LOW)
      s3 == [s2 EXCEPT !.statusLedStates[4] = BoolLevel(s2.lightState)]
  IN updateLedsAt(s3, 4)

updateLight(s) ==
  LET s1 == digitalWrite(s, lightPin, BoolLevel(s.lightState))
      s2 == IF s1.lightState
              THEN pinMode(s1, espLightStatePin, "INPUT")
              ELSE digitalWrite(pinMode(s1, espLightStatePin, "OUTPUT"),
                                espLightStatePin, LOW)
      s3 == [s2 EXCEPT !.statusLedStates[4] = BoolLevel(~s2.lightState)]
  IN updateLedsAt(s3, 4)

toggleLight(s) == updateLight([s EXCEPT !.lightState = ~s.lightState])

\* Variant: button 3 pressed in state 4 stays in state 4.
buttonPressed_Latch(s, index) ==
  CASE index \in {0, 1, 2} -> updateFan([s EXCEPT !.fanState = index])
    [] index = 3 -> updateFan([s EXCEPT !.fanState = IF s.fanState \in {3, 4} THEN 4 ELSE 3])
    [] index = 4 -> toggleLight(s)
    [] OTHER -> s

\* Variant: button 3 goes to state 4 first and to state 3 from state 4.
buttonPressed_BlinkFirst(s, index) ==
  CASE index \in {0, 1, 2} -> updateFan([s EXCEPT !.fanState = index])
    [] index = 3 -> updateFan([s EXCEPT !.fanState = IF s.fanState = 4 THEN 3 ELSE 4])
    [] index = 4 -> toggleLight(s)
    [] OTHER -> s

buttonPressed(s, index) ==
  CASE index \in {0, 1, 2} -> updateFan([s EXCEPT !.fanState = index])
    [] index = 3 -> updateFan([s EXCEPT !.fanState = IF s.fanState = 3 THEN 4 ELSE 3])
    [] index = 4 -> toggleLight(s)
    [] OTHER -> s

\* readButtonState(index) in its four parts: the line is made a pulled-up
\* input, it is sampled (v the value analogRead returns), it is made an
\* output again, and the level of its LED is written back.
readSense(s, index) ==
  pinMode([s EXCEPT !.bPrevVals[index] = s.bCurrVals[index]],
          buttonLedPins[index], "INPUT_PULLUP")

readSample(s, index, v) == [s EXCEPT !.bCurrVals[index] = v]

readWrite(s, index) ==
  digitalWrite(s, buttonLedPins[index], s.statusLedStates[index])

\* Variant: the line is left as a pulled-up input.
readRestore_Skipped(s, index) == s

readRestore(s, index) == pinMode(s, buttonLedPins[index], "OUTPUT")

\* readButtonState(index), v the value analogRead returns.
readButtonState(s, index, v) ==
  readWrite(readRestore(readSample(readSense(s, index), index, v), index), index)

\* Variant: the LED lines are not made outputs.
setup_NoLedModes(s) ==
  LET s2 == updateLeds(s)
      s3 == pinMode(s2, lightPin, "OUTPUT")
      s4 == digitalWrite(pinMode(s3, espLightStatePin, "OUTPUT"), espLightStatePin, LOW)
      s5 == updateLight(pinMode(s4, espLightTogglePin, "INPUT"))
      s6 == pinMode(pinMode(pinMode(s5, fanPin1, "OUTPUT"), fanPin2, "OUTPUT"),
                    fanPin3, "OUTPUT")
  IN updateFan(s6)

setup(s) ==
  LET s1 == [s EXCEPT !.pinModes = [p \in Pins |->
                         IF p \in {buttonLedPins[i] : i \in Channels}
                           THEN "OUTPUT" ELSE s.pinModes[p]]]
      s2 == updateLeds(s1)
      s3 == pinMode(s2, lightPin, "OUTPUT")
      s4 == digitalWrite(pinMode(s3, espLightStatePin, "OUTPUT"), espLightStatePin, LOW)
      s5 == updateLight(pinMode(s4, espLightTogglePin, "INPUT"))
      s6 == pinMode(pinMode(pinMode(s5, fanPin1, "OUTPUT"), fanPin2, "OUTPUT"),
                    fanPin3, "OUTPUT")
  IN updateFan(s6)

\* Variant: a press is taken on a rise of the reading instead of a drop.
LoopButton_RisingEdge(s, i, v) ==
  LET s1 == readButtonState(s, i, v)
  IN IF s1.bCurrVals[i] - s1.bPrevVals[i] > PressDrop
       THEN buttonPressed(s1, i) ELSE s1

\* Variant: a drop equal to the threshold counts as a press.
LoopButton_Inclusive(s, i, v) ==
  LET s1 == readButtonState(s, i, v)
  IN IF s1.bPrevVals[i] - s1.bCurrVals[i] >= PressDrop
       THEN buttonPressed(s1, i) ELSE s1

\* Body of the for loop of loop60() for channel i.
LoopButton(s, i, v) ==
  LET s1 == readButtonState(s, i, v)
  IN IF s1.bPrevVals[i] - s1.bCurrVals[i] > PressDrop
       THEN buttonPressed(s1, i) ELSE s1

\* The if statement of the for loop of loop60(), readButtonState(i) done.
LoopPress(s, i) ==
  IF s.bPrevVals[i] - s.bCurrVals[i] > PressDrop THEN buttonPressed(s, i) ELSE s

\* Variant: the pulse flips lightState without going through toggleLight().
LoopCompanion_DirectFlip(s, v) ==
  LET s1 == [s EXCEPT !.espLightTogglePrev = s.espLightToggleCurr,
                      !.espLightToggleCurr = v]
  IN IF s1.espLightToggleCurr - s1.espLightTogglePrev > PulseRise
       THEN [s1 EXCEPT !.lightState = ~s1.lightState] ELSE s1

\* Variant: a rise equal to the threshold counts as a pulse.
LoopCompanion_Inclusive(s, v) ==
  LET s1 == [s EXCEPT !.espLightTogglePrev = s.espLightToggleCurr,
                      !.espLightToggleCurr = v]
  IN IF s1.espLightToggleCurr - s1.espLightTogglePrev >= PulseRise
       THEN toggleLight(s1) ELSE s1

\* Variant: a pulse switches the light on instead of toggling it.
LoopCompanion_SwitchOn(s, v) ==
  LET s1 == [s EXCEPT !.espLightTogglePrev = s.espLightToggleCurr,
                      !.espLightToggleCurr = v]
  IN IF s1.espLightToggleCurr - s1.espLightTogglePrev > PulseRise
       THEN updateLight([s1 EXCEPT !.lightState = TRUE]) ELSE s1

\* The companion part of loop60(), v the value analogRead returns.
LoopCompanion(s, v) ==
  LET s1 == [s EXCEPT !.espLightTogglePrev = s.espLightToggleCurr,
                      !.espLightToggleCurr = v]
  IN IF s1.espLightToggleCurr - s1.espLightTogglePrev > PulseRise
       THEN toggleLight(s1) ELSE s1

\* Variant: LED 3 is flipped whenever the counter wraps, in any fan state.
LoopBlink_AnyState(s) ==
  LET s1 == [s EXCEPT !.counter = s.counter + 1]
  IN IF s1.counter = BlinkTicks
       THEN LET s2 == [s1 EXCEPT !.counter = 0]
            IN updateLedsAt([s2 EXCEPT !.statusLedStates[3] =
                                NotLevel(s2.statusLedStates[3])], 3)
       ELSE s1

\* The counter part of loop60().
LoopBlink(s) ==
  LET s1 == [s EXCEPT !.counter = s.counter + 1]
  IN IF s1.counter = BlinkTicks
       THEN LET s2 == [s1 EXCEPT !.counter = 0]
            IN IF s2.fanState = 4
                 THEN updateLedsAt([s2 EXCEPT !.statusLedStates[3] =
                                       NotLevel(s2.statusLedStates[3])], 3)
                 ELSE s2
       ELSE s1

(* unsigned long arithmetic on [hi, lo], the value being hi * 2^16 + lo. *)

\* a - b modulo 2^32
Minus32(a, b) ==
  LET borrow == IF a.lo < b.lo THEN 1 ELSE 0
  IN [hi |-> (a.hi - b.hi - borrow + Limb) % Limb,
      lo |-> (a.lo - b.lo + Limb) % Limb]

\* a + d modulo 2^32, for 0 <= d < 2^16
Plus32(a, d) ==
  [hi |-> (a.hi + ((a.lo + d) \div Limb)) % Limb, lo |-> (a.lo + d) % Limb]

\* e > n and e >= n, for 0 <= n < 2^16
Exceeds(e, n) == e.hi > 0 \/ e.lo > n
AtLeast(e, n) == e.hi > 0 \/ e.lo >= n

\* Variant: the tick is due when the clock is past millisPrev + 16, the sum
\* wrapping and the comparison not.
TickDue_Deadline(now, prev) ==
  LET deadline == Plus32(prev, TickPeriod)
  IN now.hi > deadline.hi \/ (now.hi = deadline.hi /\ now.lo > deadline.lo)

\* Variant: the tick is due when exactly 17 milliseconds have passed.
TickDue_Exact(now, prev) ==
  Minus32(now, prev) = [hi |-> 0, lo |-> TickPeriod + 1]

\* millisCurr - millisPrev > 16
TickDue(now, prev) == Exceeds(Minus32(now, prev), TickPeriod)

(* ------------------------------------------------------------- actions *)

Init ==
  LET s == setup(Boot)
  IN /\ statusLedStates = s.statusLedStates
     /\ bCurrVals = s.bCurrVals
     /\ bPrevVals = s.bPrevVals
     /\ lightState = s.lightState
     /\ fanState = s.fanState
     /\ espLightTogglePrev = s.espLightTogglePrev
     /\ espLightToggleCurr = s.espLightToggleCurr
     /\ counter = s.counter
     /\ pinModes = s.pinModes
     /\ pinLevels = s.pinLevels
     /\ written = s.written
     /\ pc = 0
     /\ fanAtTick = s.fanState
     /\ lightAtTick = s.lightState
     /\ espSampled = FALSE
     /\ phase = 0
     /\ millis = [hi |-> 0, lo |-> 0]
     /\ millisPrev = [hi |-> 0, lo |-> 0]
     /\ inTick = FALSE
     /\ polled = FALSE
     /\ sinceTick = 0

\* Lines already read low in this pass.
HeldBefore(i) == Cardinality({j \in Channels : j < i /\ IsHeld(bCurrVals[j])})

\* Specification Spec: the buttons are operated, any of them, at most MaxHeld
\* in one pass, while the companion holds its request line low.
ButtonStep ==
  /\ pc \in Channels
  /\ \E v \in ButtonSamples :
       /\ IsHeld(v) => HeldBefore(pc) < MaxHeld
       /\ Commit(LoopButton(St, pc, v))
  /\ pc' = pc + 1
  /\ UNCHANGED <<fanAtTick, lightAtTick, espSampled, phase, loopVars>>

CompanionStep ==
  /\ pc = blCount
  /\ \E v \in EspIdleSamples : Commit(LoopCompanion(St, v))
  /\ pc' = blCount + 1
  /\ espSampled' = TRUE
  /\ UNCHANGED <<fanAtTick, lightAtTick, phase, loopVars>>

BlinkStep ==
  /\ pc = blCount + 1
  /\ Commit(LoopBlink(St))
  /\ pc' = 0
  /\ fanAtTick' = fanState'
  /\ lightAtTick' = lightState'
  /\ UNCHANGED <<espSampled, phase, loopVars>>

Next == ButtonStep \/ CompanionStep \/ BlinkStep

Spec == Init /\ [][Next]_vars

\* Specification SpecPulse: the companion operates its request line and, of
\* the buttons, the light button is operated.
ButtonStepPulse ==
  /\ pc \in Channels
  /\ \E v \in ButtonSamples :
       /\ IsHeld(v) => pc = 4
       /\ Commit(LoopButton(St, pc, v))
  /\ pc' = pc + 1
  /\ UNCHANGED <<fanAtTick, lightAtTick, espSampled, phase, loopVars>>

CompanionStepPulse ==
  /\ pc = blCount
  /\ \E v \in EspPulseSamples : Commit(LoopCompanion(St, v))
  /\ pc' = blCount + 1
  /\ espSampled' = TRUE
  /\ UNCHANGED <<fanAtTick, lightAtTick, phase, loopVars>>

NextPulse == ButtonStepPulse \/ CompanionStepPulse \/ BlinkStep

SpecPulse == Init /\ [][NextPulse]_vars

\* Specification SpecEdge: the buttons are operated one at a time, with
\* readings on the scale of ButtonEdgeSamples; the companion is idle.
ButtonStepEdge ==
  /\ pc \in Channels
  /\ \E v \in ButtonEdgeSamples :
       /\ v # 1023 => \A j \in Channels : j < pc => bCurrVals[j] = 1023
       /\ Commit(LoopButton(St, pc, v))
  /\ pc' = pc + 1
  /\ UNCHANGED <<fanAtTick, lightAtTick, espSampled, phase, loopVars>>

NextEdge == ButtonStepEdge \/ CompanionStep \/ BlinkStep

SpecEdge == Init /\ [][NextEdge]_vars

\* Specification SpecAll: every button is operated, one at a time, and the
\* companion pulses its request line.
ButtonStepAll ==
  /\ pc \in Channels
  /\ \E v \in ButtonSamples :
       /\ IsHeld(v) => \A j \in Channels : j < pc => ~IsHeld(bCurrVals[j])
       /\ Commit(LoopButton(St, pc, v))
  /\ pc' = pc + 1
  /\ UNCHANGED <<fanAtTick, lightAtTick, espSampled, phase, loopVars>>

CompanionStepAll ==
  /\ pc = blCount
  /\ \E v \in EspSamples : Commit(LoopCompanion(St, v))
  /\ pc' = blCount + 1
  /\ espSampled' = TRUE
  /\ UNCHANGED <<fanAtTick, lightAtTick, phase, loopVars>>

NextAll == ButtonStepAll \/ CompanionStepAll \/ BlinkStep

SpecAll == Init /\ [][NextAll]_vars

\* Specification SpecLoop: loop() and the millisecond clock, with no button
\* touched and the companion idle.  loop() reads the clock and, when the tick
\* is due, stores the clock in millisPrev and calls loop60(), whose steps
\* follow as in the other specifications.
LoopCall ==
  /\ ~inTick /\ pc = 0
  /\ IF TickDue(millis, millisPrev)
       THEN millisPrev' = millis /\ inTick' = TRUE /\ sinceTick' = 0
       ELSE UNCHANGED <<millisPrev, inTick, sinceTick>>
  /\ polled' = TRUE
  /\ UNCHANGED <<statusLedStates, bCurrVals, bPrevVals, lightState, fanState,
                 espLightTogglePrev, espLightToggleCurr, counter, pinModes,
                 pinLevels, written, pc, fanAtTick, lightAtTick, espSampled,
                 phase, millis>>

ButtonStepLoop ==
  /\ inTick /\ pc \in Channels
  /\ \E v \in ButtonIdleSamples : Commit(LoopButton(St, pc, v))
  /\ pc' = pc + 1
  /\ UNCHANGED <<fanAtTick, lightAtTick, espSampled, phase, loopVars>>

CompanionStepLoop ==
  /\ inTick /\ pc = blCount
  /\ \E v \in EspIdleSamples : Commit(LoopCompanion(St, v))
  /\ pc' = blCount + 1
  /\ espSampled' = TRUE
  /\ UNCHANGED <<fanAtTick, lightAtTick, phase, loopVars>>

\* The last step of loop60(); loop60() and loop() return.
BlinkStepLoop ==
  /\ inTick /\ pc = blCount + 1
  /\ Commit(LoopBlink(St))
  /\ pc' = 0
  /\ inTick' = FALSE
  /\ fanAtTick' = fanState'
  /\ lightAtTick' = lightState'
  /\ UNCHANGED <<espSampled, phase, millis, millisPrev, polled, sinceTick>>

\* The clock after d more milliseconds.  At the end of the window after the
\* wrap it is taken on to the start of the window before the next wrap.
NextClock(m, d) ==
  IF m.hi = 0 /\ m.lo < ClockWindow /\ m.lo + d >= ClockWindow
    THEN [hi |-> Limb - 1, lo |-> Limb - ClockWindow]
    ELSE Plus32(m, d)

\* The clock advances; loop() has read it since it last did.
ClockStep ==
  /\ polled
  /\ \E d \in ClockSteps :
       /\ millis' = NextClock(millis, d)
       /\ sinceTick' = IF millis' = Plus32(millis, d) /\ sinceTick + d <= TickPeriod
                          THEN sinceTick + d ELSE TickPeriod + 1
  /\ polled' = FALSE
  /\ UNCHANGED <<statusLedStates, bCurrVals, bPrevVals, lightState, fanState,
                 espLightTogglePrev, espLightToggleCurr, counter, pinModes,
                 pinLevels, written, pc, fanAtTick, lightAtTick, espSampled,
                 phase, millisPrev, inTick>>

\* The program's steps in SpecLoop.
ProgramLoop == LoopCall \/ ButtonStepLoop \/ CompanionStepLoop \/ BlinkStepLoop

NextLoop == ProgramLoop \/ ClockStep

SpecLoop == Init /\ [][NextLoop]_vars

\* The program goes on running and the clock goes on advancing.
SpecLoopFair == SpecLoop /\ WF_vars(ProgramLoop) /\ WF_vars(ClockStep)

\* Specification SpecPins: readButtonState() is taken apart into its four
\* pin operations, phase counting those done for channel pc; every button
\* is operated, one at a time, and the companion is idle.
PinSense ==
  /\ pc \in Channels /\ phase = 0
  /\ Commit(readSense(St, pc))
  /\ phase' = 1
  /\ UNCHANGED <<pc, fanAtTick, lightAtTick, espSampled, loopVars>>

PinSample ==
  /\ pc \in Channels /\ phase = 1
  /\ \E v \in ButtonSamples :
       /\ IsHeld(v) => \A j \in Channels : j < pc => ~IsHeld(bCurrVals[j])
       /\ Commit(readSample(St, pc, v))
  /\ phase' = 2
  /\ UNCHANGED <<pc, fanAtTick, lightAtTick, espSampled, loopVars>>

PinRestore ==
  /\ pc \in Channels /\ phase = 2
  /\ Commit(readRestore(St, pc))
  /\ phase' = 3
  /\ UNCHANGED <<pc, fanAtTick, lightAtTick, espSampled, loopVars>>

\* The last operation of readButtonState(pc) and the rest of the loop body.
PinWrite ==
  /\ pc \in Channels /\ phase = 3
  /\ Commit(LoopPress(readWrite(St, pc), pc))
  /\ phase' = 0
  /\ pc' = pc + 1
  /\ UNCHANGED <<fanAtTick, lightAtTick, espSampled, loopVars>>

NextPins == PinSense \/ PinSample \/ PinRestore \/ PinWrite
              \/ CompanionStep \/ BlinkStep

SpecPins == Init /\ [][NextPins]_vars

\* Specification SpecOrder: the buttons are operated as in Spec, and the
\* companion sends its pulse in a tick in which the light button registers.
CompanionStepOrder ==
  /\ pc = blCount
  /\ \E v \in (IF bPrevVals[4] - bCurrVals[4] > PressDrop
                 THEN EspSamples ELSE EspIdleSamples) :
       Commit(LoopCompanion(St, v))
  /\ pc' = blCount + 1
  /\ espSampled' = TRUE
  /\ UNCHANGED <<fanAtTick, lightAtTick, phase, loopVars>>

NextOrder == ButtonStep \/ CompanionStepOrder \/ BlinkStep

SpecOrder == Init /\ [][NextOrder]_vars

TypeOK ==
  /\ fanState \in 0 .. 4
  /\ lightState \in BOOLEAN
  /\ counter \in 0 .. (BlinkTicks - 1)
  /\ pc \in 0 .. (blCount + 1)
  /\ pc = 0 => fanAtTick = fanState /\ lightAtTick = lightState
  /\ phase \in 0 .. 3
  /\ written \subseteq Pins
  /\ inTick \in BOOLEAN /\ polled \in BOOLEAN
  /\ sinceTick \in 0 .. (TickPeriod + 1)
  /\ millis \in [hi : 0 .. (Limb - 1), lo : 0 .. (Limb - 1)]
  /\ millisPrev \in [hi : 0 .. (Limb - 1), lo : 0 .. (Limb - 1)]

(* ----------------------------------------------------- derived notions *)

\* Channel j registered a press in the pass that last read it.
Registered(j) == bPrevVals[j] - bCurrVals[j] > PressDrop
RegisteredSet == {j \in Channels : Registered(j)}
\* The last reading of the request line registered a pulse.
PulseRegistered == espLightToggleCurr - espLightTogglePrev > PulseRise

Relays == <<pinLevels[fanPin1], pinLevels[fanPin2], pinLevels[fanPin3]>>
\* Indicator k is lit: its line is an output driven low.
Lit(k) == pinModes[buttonLedPins[k]] = "OUTPUT" /\ pinLevels[buttonLedPins[k]] = LOW
LitSet == {k \in Channels : Lit(k)}

\* The state right after updateFan() returned: after setup(), or after the
\* pass of a fan button that registered a press.
AfterUpdateFan ==
  \/ pc = 0 /\ ~espSampled
  \/ pc \in 1 .. 4 /\ Registered(pc - 1)

\* The step being taken called buttonPressed(i): it wrote to more pins than
\* channel i's own line, which readButtonState(i) alone writes.
PressTaken(i) == written' \ {buttonLedPins[i]} # {}

\* All buttons of the running tick have been handled (or the tick is over).
ButtonsDone == pc \in {blCount, blCount + 1, 0}

(* ------------------------------------------------------------------ C1 *)

\* The relay columns of the transition table as the specification prints it.
TableRelays(f) ==
  CASE f = 0 -> <<0, 0, 0>> [] f = 1 -> <<1, 0, 0>> [] f = 2 -> <<0, 1, 0>>
    [] f = 3 -> <<1, 1, 0>> [] f = 4 -> <<1, 0, 1>>

\* C1: in every reachable state - after setup(), at every tick boundary and
\* between the steps of a tick - the three relay lines are outputs carrying
\* the table row of the current fanState.
C1_RelaysFollowFanState ==
  /\ fanState \in 0 .. 4
  /\ Relays = TableRelays(fanState)
  /\ \A p \in {fanPin1, fanPin2, fanPin3} : pinModes[p] = "OUTPUT"

C1_Witness == pc = 0 /\ espSampled /\ fanState = 4 /\ Relays = <<1, 0, 1>>

(* ------------------------------------------------------------------ C2 *)

\* Fan indicators lit per state, as the specification's table prints them.
TableLit(f) ==
  CASE f = 0 -> {0} [] f = 1 -> {1} [] f = 2 -> {2} [] f = 3 -> {2, 3} [] f = 4 -> {2, 3}

\* Fan indicators lit per state, as the program's table and its comments say.
ProgramLit(f) ==
  CASE f = 0 -> {} [] f = 1 -> {0, 1} [] f = 2 -> {0, 2} [] f = 3 -> {0, 3} [] f = 4 -> {0, 3}

\* C2 as claimed: right after updateFan() the fan indicators lit are those of
\* the specification's table (Off: 0; Low: 1; Medium: 2; High, HighBlink: 2, 3).
C2_TableIndicators == AfterUpdateFan => (LitSet \ {4}) = TableLit(fanState)

\* C2 amended: right after updateFan() the fan indicators lit are: none in Off;
\* 0 and 1 in Low; 0 and 2 in Medium; 0 and 3 in High and in HighBlink; and
\* statusLedStates holds LOW for exactly those.
C2_ProgramIndicators ==
  AfterUpdateFan =>
    /\ (LitSet \ {4}) = ProgramLit(fanState)
    /\ \A k \in 0 .. 3 : (statusLedStates[k] = LOW) <=> (k \in ProgramLit(fanState))

C2_Witness ==
  /\ pc = 4 /\ Registered(3) /\ fanState = 4 /\ fanAtTick = 3
  /\ (LitSet \ {4}) = {0, 3}

(* ------------------------------------------------------------------ C3 *)

\* C3: once the buttons of a tick are handled, and up to the end of the tick,
\* if button i in {0,1,2} is the only one that registered a press, then
\* fanState = i, the relays carry row i and LED lines 0..3 are outputs
\* carrying the LED columns of row i of fanPinStates.
C3_DirectButtons ==
  \A i \in {0, 1, 2} :
    (ButtonsDone /\ RegisteredSet = {i}) =>
      /\ fanState = i
      /\ Relays = TableRelays(i)
      /\ \A k \in 0 .. 3 :
           /\ statusLedStates[k] = fanPinStates[i][k + 3]
           /\ pinLevels[buttonLedPins[k]] = fanPinStates[i][k + 3]
           /\ pinModes[buttonLedPins[k]] = "OUTPUT"

C3_Witness ==
  /\ pc = blCount + 1 /\ RegisteredSet = {1}
  /\ fanAtTick = 4 /\ fanState = 1 /\ lightState
  /\ Relays = <<1, 0, 0>>

(* ------------------------------------------------------------------ C4 *)

FlipFlop(f) == IF f = 3 THEN 4 ELSE 3

\* C4: the pass of button 3, when it registers a press, takes High to
\* HighBlink and every other state to High; and a tick in which button 3 is
\* the only fan button that registered ends in High or HighBlink, the
\* flip-flop image of the state the tick started in.
C4_FlipFlop ==
  /\ [][(pc = 3 /\ Registered(3)') => fanState' = FlipFlop(fanState)]_vars
  /\ [][(pc = blCount + 1 /\ RegisteredSet \cap (0 .. 3) = {3})
          => (fanState' = FlipFlop(fanAtTick) /\ fanState' \in {3, 4})]_vars

C4_Witness ==
  /\ pc = blCount + 1 /\ RegisteredSet = {3}
  /\ fanAtTick = 4 /\ fanState = 3

(* ------------------------------------------------------------------ C5 *)

\* C5: a step enters HighBlink only as the pass of button 3 registering a
\* press in High, in a tick that started in High; and a tick that ends in
\* HighBlink started in HighBlink or started in High with button 3 registering.
C5_HighBlinkOnlyFromHigh ==
  /\ [][(fanState' = 4 /\ fanState # 4)
          => (pc = 3 /\ Registered(3)' /\ fanState = 3 /\ fanAtTick = 3)]_vars
  /\ [][(pc = blCount + 1 /\ fanState' = 4)
          => (fanAtTick = 4 \/ (fanAtTick = 3 /\ Registered(3)))]_vars

C5_Witness ==
  /\ pc = blCount + 1 /\ RegisteredSet = {3, 4}
  /\ fanAtTick = 3 /\ fanState = 4

(* ------------------------------------------------------------------ C6 *)

\* The pass of button 3 that moves between High and HighBlink.
HighFlip == pc = 3 /\ Registered(3)' /\ {fanState, fanState'} = {3, 4}

\* C6 as claimed: a flip between High and HighBlink leaves the three relay
\* outputs unchanged.
C6_SameRelays == [][HighFlip => Relays' = Relays]_vars

\* C6 amended: a flip between High and HighBlink keeps relay 1 high and swaps
\* relays 2 and 3 (High 1,1,0; HighBlink 1,0,1); of the indicators only
\* indicator 3 can change, and the light outputs are untouched.
C6_RelaysSwap ==
  [][HighFlip =>
       /\ Relays = IF fanState = 3 THEN <<1, 1, 0>> ELSE <<1, 0, 1>>
       /\ Relays' = IF fanState' = 3 THEN <<1, 1, 0>> ELSE <<1, 0, 1>>
       /\ \A k \in {0, 1, 2, 4} :
            /\ statusLedStates'[k] = statusLedStates[k]
            /\ pinLevels'[buttonLedPins[k]] = pinLevels[buttonLedPins[k]]
       /\ statusLedStates'[3] = LOW
       /\ lightState' = lightState
       /\ pinLevels'[lightPin] = pinLevels[lightPin]
       /\ pinModes'[espLightStatePin] = pinModes[espLightStatePin]]_vars

C6_Witness ==
  /\ pc = 4 /\ Registered(3) /\ fanAtTick = 3 /\ fanState = 4
  /\ Relays = <<1, 0, 1>>

(* ------------------------------------------------------------------ C7 *)

\* C7: in every reachable state the light line is an output that is high iff
\* lightState, and the companion output line is a plain input (released) iff
\* lightState and an output driven low iff not lightState.
C7_LightLockstep ==
  /\ pinModes[lightPin] = "OUTPUT"
  /\ pinLevels[lightPin] = (IF lightState THEN HIGH ELSE LOW)
  /\ lightState => pinModes[espLightStatePin] = "INPUT"
  /\ ~lightState => (pinModes[espLightStatePin] = "OUTPUT"
                       /\ pinLevels[espLightStatePin] = LOW)

\* The light was switched on by a companion pulse and off again by button 4.
C7_Witness ==
  /\ pc = blCount + 1 /\ lightAtTick /\ ~lightState
  /\ Registered(4) /\ ~PulseRegistered
  /\ espLightToggleCurr = 601
  /\ pinModes[espLightStatePin] = "OUTPUT"

(* ------------------------------------------------------------------ C8 *)

\* C8 as claimed: indicator 4 is lit exactly when the light is off.
C8_LitWhenLightOff == Lit(4) <=> ~lightState

\* C8 amended: indicator 4 is lit (its line an output driven low) exactly when
\* the light is on, and statusLedStates[4] is LOW exactly then.
C8_LitWhenLightOn ==
  /\ Lit(4) <=> lightState
  /\ (statusLedStates[4] = LOW) <=> lightState

C8_Witness ==
  /\ pc = 0 /\ lightState /\ Lit(4) /\ PulseRegistered /\ ~Registered(4)

(* ------------------------------------------------------------------ C9 *)

\* C9: the companion step shifts the stored readings, and toggles the light
\* iff the new reading exceeds the previous one by more than 600; the toggle
\* flips lightState once and leaves lightState, the pin levels, the pin modes
\* and the LED states as buttonPressed(4) would; without it they are unchanged.
C9_CompanionToggle ==
  [][pc = blCount =>
       LET rose == espLightToggleCurr' - espLightTogglePrev' > 600
           b == buttonPressed(St, 4)
       IN /\ espLightTogglePrev' = espLightToggleCurr
          /\ rose => /\ lightState' = ~lightState
                     /\ lightState' = b.lightState
                     /\ pinLevels' = b.pinLevels
                     /\ pinModes' = b.pinModes
                     /\ statusLedStates' = b.statusLedStates
          /\ ~rose => UNCHANGED <<lightState, pinLevels, pinModes, statusLedStates>>
          /\ UNCHANGED <<fanState, counter, bCurrVals, bPrevVals>>]_vars

C9_Witness ==
  /\ pc = blCount + 1 /\ espSampled
  /\ espLightToggleCurr - espLightTogglePrev = 601
  /\ ~Registered(4) /\ lightState # lightAtTick

\* A rise of exactly 600 was read and the light kept its state.
C9_AtThreshold ==
  /\ pc = blCount + 1 /\ espSampled
  /\ espLightToggleCurr - espLightTogglePrev = 600
  /\ ~Registered(4) /\ lightState = lightAtTick

(* ----------------------------------------------------------------- C10 *)

\* C10: a reading of the request line that shows no change of level - the
\* first reading after boot, or a reading equal to the one before it - does
\* not toggle the light.
C10_HeldLevelNeverToggles ==
  [][(pc = blCount /\ (~espSampled \/ espLightToggleCurr' = espLightToggleCurr))
       => lightState' = lightState]_vars

\* The part of C10 that the program keeps: a reading equal to the previous
\* reading of the line does not toggle the light.
C10_HeldAfterFirstReading ==
  [][(pc = blCount /\ espSampled /\ espLightToggleCurr' = espLightToggleCurr)
       => lightState' = lightState]_vars

(* ----------------------------------------------------------------- C11 *)

C12_BlinkPeriod ==
  [][/\ (pc = blCount + 1) =>
          /\ counter' = (counter + 1) % 30
          /\ (statusLedStates'[3] # statusLedStates[3]) <=> (fanState = 4 /\ counter = 29)
          /\ pinLevels'[buttonLedPins[3]] = statusLedStates'[3]
     /\ (pc # blCount + 1 /\ ~(pc \in 0 .. 3 /\ PressTaken(pc))) =>
          /\ statusLedStates'[3] = statusLedStates[3]
          /\ pinLevels'[buttonLedPins[3]] = pinLevels[buttonLedPins[3]]
          /\ counter' = counter]_vars

\* In state 4 the counter wrapped and switched LED 3 off, in a tick in which
\* the companion toggled the light.
C12_Witness ==
  /\ pc = 0 /\ fanState = 4 /\ counter = 0 /\ ~Lit(3)
  /\ PulseRegistered /\ RegisteredSet = {}

(* ----------------------------------------------------------------- C13 *)

\* C13: whenever fanState is not 4, at the end of a tick and at every
\* position inside it, LED 3 holds its table value: on (LOW) in state 3 and
\* off (HIGH) in states 0, 1 and 2, in statusLedStates and on the line.
C13_Led3Restored ==
  fanState # 4 =>
    /\ statusLedStates[3] = (IF fanState = 3 THEN LOW ELSE HIGH)
    /\ pinLevels[buttonLedPins[3]] = statusLedStates[3]
    /\ Lit(3) <=> fanState = 3

\* A tick that began in state 4 has ended in state 3 by a press of button 3,
\* with LED 3 on.
C13_Witness ==
  /\ pc = blCount + 1 /\ fanAtTick = 4 /\ fanState = 3
  /\ RegisteredSet = {3} /\ Lit(3)

\* A tick that began in state 4 has ended in state 0 by a press of button 0
\* while the companion toggled the light.
C13_WitnessOff ==
  /\ pc = blCount + 1 /\ fanAtTick = 4 /\ fanState = 0
  /\ RegisteredSet = {0} /\ PulseRegistered /\ ~Lit(3)

(* ----------------------------------------------------------------- C14 *)

\* The step being taken calls toggleLight(): button 4 registers a press or
\* the companion step registers a pulse.
LightToggleStep ==
  \/ pc = 4 /\ PressTaken(4)
  \/ pc = blCount /\ espLightToggleCurr' - espLightTogglePrev' > 600

FanOutputs ==
  <<fanState, Relays, [k \in 0 .. 3 |-> statusLedStates[k]],
    [k \in 0 .. 3 |-> pinLevels[buttonLedPins[k]]],
    [k \in 0 .. 3 |-> pinModes[buttonLedPins[k]]]>>

LightOutputs ==
  <<lightState, pinLevels[lightPin], pinModes[espLightStatePin],
    pinLevels[espLightStatePin], statusLedStates[4], pinLevels[buttonLedPins[4]]>>

\* C14: a step that toggles the light leaves fanState, the relays and LEDs
\* 0..3 as they are; every other step (a fan button press, the blink flip,
\* a pass without a press) leaves lightState, the light line, the companion
\* output and LED 4 as they are; lightState changes only in a toggle step,
\* and there it is negated.
C14_FanLightIndependent ==
  [][/\ LightToggleStep => FanOutputs' = FanOutputs /\ lightState' = ~lightState
     /\ ~LightToggleStep => LightOutputs' = LightOutputs]_vars

\* In state 4 with LED 3 in its dark phase the companion has toggled the
\* light on; later in the tick nothing of the fan has moved.
C14_Witness ==
  /\ pc = blCount + 1 /\ PulseRegistered /\ lightState /\ ~lightAtTick
  /\ fanState = 4 /\ fanAtTick = 4 /\ ~Lit(3) /\ Lit(4)

\* A press of button 3 has moved the fan while the light is on.
C14_WitnessFan ==
  /\ pc = 4 /\ Registered(3) /\ fanState = 4 /\ lightState /\ Lit(4)
  /\ pinModes[espLightStatePin] = "INPUT"

(* ----------------------------------------------------------------- C15 *)

\* The step being taken is loop() calling loop60().
TickRan == ~inTick /\ inTick'

\* C15: loop() calls loop60() only when the clock minus millisPrev, modulo
\* 2^32, is at least 16, and at least 16 milliseconds have passed since it
\* last called it; the call sets millisPrev to the clock, millisPrev changes
\* in no other step, and the steps of loop60() run only inside such a call.
C15_TickSpacing ==
  [][/\ TickRan => /\ AtLeast(Minus32(millis, millisPrev), 16)
                   /\ sinceTick >= 16
                   /\ millisPrev' = millis
     /\ millisPrev' # millisPrev => TickRan
     /\ counter' # counter => inTick]_vars

\* A tick has just run less than 16 milliseconds after the clock wrapped to
\* 0, so the tick before it ran before the wrap.
C15_Witness ==
  /\ inTick /\ sinceTick = 0 /\ polled /\ counter > 0
  /\ millis = millisPrev /\ millisPrev.hi = 0 /\ millisPrev.lo < 16

(* ----------------------------------------------------------------- C16 *)

\* C16: with loop() called again and again and the clock advancing, ticks
\* never stop: at every point of a run another tick is still to come, also
\* while the clock wraps to 0.
C16_TicksRecur == []<><<TickRan>>_vars

\* Ticks went on after a wrap: at least five have run and the last one ran
\* when the clock had passed 0 again.
C16_Witness ==
  /\ counter >= 5 /\ millisPrev.hi = 0 /\ millisPrev.lo < 16
  /\ millis.hi = 0 /\ sinceTick > 0 /\ ~inTick

(* ----------------------------------------------------------------- C17 *)

\* C17: when setup() has returned and loop60() has not run yet, fanState is
\* 0, the light is off, the three relay lines and the light line are outputs
\* driven low, the companion output is an output driven low, and each of the
\* five LED lines is an output driven high with its LED state HIGH.
C17_BootDefaults ==
  (pc = 0 /\ ~espSampled) =>
    /\ fanState = 0 /\ lightState = FALSE
    /\ Relays = <<LOW, LOW, LOW>>
    /\ \A p \in {fanPin1, fanPin2, fanPin3, lightPin} : pinModes[p] = "OUTPUT"
    /\ pinLevels[lightPin] = LOW
    /\ pinModes[espLightStatePin] = "OUTPUT" /\ pinLevels[espLightStatePin] = LOW
    /\ \A k \in Channels :
         /\ pinModes[buttonLedPins[k]] = "OUTPUT"
         /\ pinLevels[buttonLedPins[k]] = HIGH
         /\ statusLedStates[k] = HIGH

\* setup() has returned after writing every output line, and nothing else
\* has run.
C17_Witness ==
  /\ pc = 0 /\ ~espSampled /\ counter = 0 /\ LitSet = {}
  /\ written = Pins \ {espLightTogglePin}

(* ----------------------------------------------------------------- C18 *)

\* The program's variables in s, without the pins.
Variables(s) ==
  <<s.statusLedStates, s.fanState, s.lightState, s.counter, s.bCurrVals,
    s.bPrevVals, s.espLightTogglePrev, s.espLightToggleCurr>>

\* C18: in every reachable state, updateLeds() and updateLeds(index) for
\* index 0..4 write to the lines they cover the level statusLedStates holds
\* for them and to no other pin, change no pin mode and none of the program's
\* variables, and a second call leaves pins and variables as the first did.
C18_UpdateLedsIdempotent ==
  \A index \in {-1} \cup Channels :
    LET once == updateLedsAt(St, index)
        twice == updateLedsAt(once, index)
        covered == IF index = -1 THEN Channels ELSE {index}
    IN /\ Variables(once) = Variables(St)
       /\ Variables(twice) = Variables(St)
       /\ once.pinModes = pinModes
       /\ once.written = {buttonLedPins[k] : k \in covered}
       /\ \A k \in covered : once.pinLevels[buttonLedPins[k]] = statusLedStates[k]
       /\ \A p \in Pins \ once.written : once.pinLevels[p] = pinLevels[p]
       /\ twice.pinLevels = once.pinLevels
       /\ twice.pinModes = once.pinModes

\* The blink step has just called updateLeds(3) in state 4 with the light on:
\* LEDs 0 and 4 lit, LED 3 dark.
C18_Witness ==
  /\ pc = 0 /\ fanState = 4 /\ counter = 0 /\ lightState
  /\ written = {buttonLedPins[3]} /\ LitSet = {0, 4}

(* ----------------------------------------------------------------- C19 *)

\* The LED lines that are not outputs.
Sensing == {k \in Channels : pinModes[buttonLedPins[k]] # "OUTPUT"}

\* C19: outside readButtonState(), so after setup() and at the end of every
\* tick, each of the five lines is an output at the level of its LED state;
\* at most one line is not an output, and then it is the line of the channel
\* being read, as pulled-up input; the sample is taken while the line is a
\* pulled-up input; and no step writes to a line that is not an output.
C19_ReadThenRestore ==
  /\ [](phase = 0 => \A k \in Channels :
                        /\ pinModes[buttonLedPins[k]] = "OUTPUT"
                        /\ pinLevels[buttonLedPins[k]] = statusLedStates[k])
  /\ [](/\ Cardinality(Sensing) <= 1
        /\ \A k \in Sensing : /\ k = pc /\ phase \in {1, 2}
                               /\ pinModes[buttonLedPins[k]] = "INPUT_PULLUP")
  /\ [][(phase = 1 /\ phase' = 2) =>
          pinModes[buttonLedPins[pc]] = "INPUT_PULLUP"]_vars
  /\ [][\A k \in Channels : buttonLedPins[k] \in written' =>
          /\ pinModes[buttonLedPins[k]] = "OUTPUT"
          /\ pinModes'[buttonLedPins[k]] = "OUTPUT"]_vars

\* Line 3 has been sampled with button 3 held and is still a pulled-up
\* input, in fan state 4 with the light on.
C19_Witness ==
  /\ pc = 3 /\ phase = 2 /\ pinModes[buttonLedPins[3]] = "INPUT_PULLUP"
  /\ bCurrVals[3] = 600 /\ bPrevVals[3] = 1023
  /\ fanState = 4 /\ lightState /\ Sensing = {3}

\* The tick has ended after a press of button 4 and a blink flip, every
\* line an output again.
C19_WitnessEnd ==
  /\ pc = 0 /\ phase = 0 /\ Registered(4) /\ fanState = 4 /\ counter = 0
  /\ Sensing = {} /\ LitSet = {0}

(* ----------------------------------------------------------------- C20 *)

\* The fan state after the presses in R, applied to state f in the order
\* of the channels.
FanAfter(f, R) ==
  LET f0 == IF 0 \in R THEN 0 ELSE f
      f1 == IF 1 \in R THEN 1 ELSE f0
      f2 == IF 2 \in R THEN 2 ELSE f1
  IN IF 3 \in R THEN (IF f2 = 3 THEN 4 ELSE 3) ELSE f2

\* The outputs of the light circuit that belong to light state b.
LightOutputsFor(b) ==
  <<b, BoolLevel(b), IF b THEN "INPUT" ELSE "OUTPUT", LOW,
    BoolLevel(~b), BoolLevel(~b)>>

\* C20: the steps of a tick run in the order buttons 0..4, companion, blink.
\* When the buttons are done fanState is what the registered fan presses
\* give when applied in channel order to the state at the start of the
\* tick, so the fan button with the highest index decides.  After the
\* companion step the light has been toggled once for a press of button 4
\* and once for a pulse; with both it was toggled by the button, then
\* toggled back, and lightState, the light line, the companion output and
\* LED 4 are as at the start of the tick.  The blink step then flips LED 3
\* iff the counter wraps in the fan state the buttons left.
C20_SequentialOrder ==
  /\ [][pc' = (pc + 1) % (blCount + 2)]_vars
  /\ [](pc \in {blCount, blCount + 1} =>
          /\ fanState = FanAfter(fanAtTick, RegisteredSet)
          /\ \A h \in 0 .. 2 :
               (h \in RegisteredSet /\ RegisteredSet \cap (h + 1) .. 3 = {})
                  => fanState = h)
  /\ [](pc = blCount => lightState = (lightAtTick # Registered(4)))
  /\ [](pc = blCount + 1 =>
          /\ lightState = ((lightAtTick # Registered(4)) # PulseRegistered)
          /\ LightOutputs = LightOutputsFor(lightState)
          /\ (Registered(4) /\ PulseRegistered) =>
                LightOutputs = LightOutputsFor(lightAtTick))
  /\ [][(pc = blCount + 1) =>
          /\ (statusLedStates'[3] # statusLedStates[3]) <=>
                (fanState = 4 /\ counter = 29)
          /\ fanState' = fanState /\ LightOutputs' = LightOutputs]_vars

\* Buttons 3 and 4 registered and the companion sent a pulse in the same
\* tick: the fan went from 3 to 4 and the light, on at the start, is on.
C20_Witness ==
  /\ pc = blCount + 1 /\ RegisteredSet = {3, 4} /\ PulseRegistered
  /\ fanAtTick = 3 /\ fanState = 4 /\ lightAtTick /\ lightState
  /\ pinLevels[lightPin] = HIGH /\ Lit(4)

\* Buttons 1 and 3 registered in a tick that began in state 4: button 3,
\* applied after button 1, leaves state 3.
C20_WitnessFan ==
  /\ pc = blCount /\ RegisteredSet = {1, 3} /\ fanAtTick = 4 /\ fanState = 3

\* State 4 was entered in the tick in which the counter wrapped, and the
\* blink step switched LED 3 off.
C20_WitnessBlink ==
  /\ pc = 0 /\ RegisteredSet = {3} /\ fanState = 4 /\ counter = 0 /\ ~Lit(3)

====
